---- MODULE Spec2Model ----
(***************************************************************************)
(* Doorbell event pipeline of backend/services/firebaseService.js:         *)
(* the child_added listener with its processed-flag guard, and             *)
(* processDoorbellEvent with its collaborators (image fetch, recognition   *)
(* oracle, visitor store, recognition_results sink, FCM).                  *)
(*                                                                         *)
(* One action is one resumption of an async handler: the completion of the *)
(* awaited I/O call together with all synchronous code up to the next      *)
(* await.  The outcome of every I/O call is chosen by the environment.     *)
(***************************************************************************)
EXTENDS Integers, Sequences, FiniteSets, TLC

\* Number of child_added callbacks (handler runs) the listener is given.
MaxRuns == 2

Runs == 1..MaxRuns

\* Keys under /doorbell_events.
Events == {"e1", "e2", "e3", "e4"}

(***************************************************************************)
(* JavaScript values.  Booleans and undefined are kept as the strings      *)
(* "true", "false", "undef" so that a field that is missing or of the      *)
(* wrong type stays comparable.  Strings that the code inspects are        *)
(* sequences: names are sequences of characters, messages are sequences    *)
(* of words.                                                               *)
(***************************************************************************)
Truthy(v) == v \notin {"false", "undef", "null"}

\* a && b
JsAnd(a, b) == IF Truthy(a) THEN b ELSE a

FromBool(b) == IF b THEN "true" ELSE "false"

\* Names used by the scenarios.
Ali == <<"A", "l", "i">>
ali == <<"a", "l", "i">>
Bob == <<"B", "o", "b">>
Zed == <<"Z", "e", "d">>
BadPattern == <<"(">>
Empty == <<>>
Unknown == <<"unknown">>
Unclassified == <<"unclassified">>

\* String.prototype.toLowerCase on one character of the alphabet in use.
Lower(c) ==
  CASE c = "A" -> "a"
    [] c = "B" -> "b"
    [] c = "Z" -> "z"
    [] OTHER -> c

\* new RegExp(name, 'i') throws a SyntaxError on an unbalanced parenthesis.
RegExpThrows(name) == \E k \in 1..Len(name) : name[k] = "("

\* One pattern character against one subject character, flag 'i'.
CharMatches(p, c) == p = "." \/ Lower(p) = Lower(c)

\* $regex: an unanchored, case-insensitive match of the pattern in the text.
RegExpTest(name, text) ==
  \E i \in 0..(Len(text) - Len(name)) :
    \A k \in 1..Len(name) : CharMatches(name[k], text[i + k])

\* message.includes('unclassified') on a message given as a word sequence.
Includes(words, w) == \E k \in 1..Len(words) : words[k] = w

(***************************************************************************)
(* The visitor collection (models/Visitor.js), in natural order.           *)
(***************************************************************************)
VisitorIds == {1, 2}

InitVisitors ==
  (1 :> [name |-> Ali, isAuthorized |-> TRUE, visitCount |-> 0, lastVisit |-> 0])
  @@ (2 :> [name |-> Bob, isAuthorized |-> FALSE, visitCount |-> 0, lastVisit |-> 0])

\* The collection as the pipeline may find it: with Ali authorized, or with
\* that authorization withdrawn (no authorized visitor at all).
VisitorCollections ==
  {InitVisitors, [InitVisitors EXCEPT ![1].isAuthorized = FALSE]}

FindOneIgnoresAuthorization(vs, name) ==
  LET hits == {v \in VisitorIds : RegExpTest(name, vs[v].name)}
  IN IF hits = {} THEN 0 ELSE CHOOSE v \in hits : \A w \in hits : v <= w

\* Visitor.findOne({name: {$regex: new RegExp(name, 'i')}, isAuthorized: true}):
\* the first matching document in natural order, 0 when there is none (null).
FindOne(vs, name) ==
  LET hits == {v \in VisitorIds : vs[v].isAuthorized /\ RegExpTest(name, vs[v].name)}
  IN IF hits = {} THEN 0 ELSE CHOOSE v \in hits : \A w \in hits : v <= w

(***************************************************************************)
(* Event payloads written by the device under /doorbell_events/{id}: one   *)
(* event of each shape processDoorbellEvent distinguishes.                 *)
(***************************************************************************)
Payload(image, imageUrl, timestamp, createdAt, deviceId, messageType) ==
  [image |-> image, imageUrl |-> imageUrl, timestamp |-> timestamp,
   createdAt |-> createdAt, deviceId |-> deviceId, messageType |-> messageType]

Payloads ==
  [e \in Events |->
     CASE e = "e1" ->
            \* the shape test-firebase-integration.js writes: inline image, timestamp
            Payload("b64", "undef", "ts", "undef", "undef", "undef")
       [] e = "e2" ->
            \* ESP32 format: image by URL, createdAt instead of timestamp
            Payload("undef", "url", "undef", "ms", "cam1", "ring")
       [] e = "e3" ->
            \* no image in either form
            Payload("undef", "undef", "ts", "undef", "cam1", "undef")
       [] OTHER ->
            \* none of the fields: no image, neither timestamp nor createdAt
            Payload("undef", "undef", "undef", "undef", "undef", "undef")]

(***************************************************************************)
(* Bodies the recognition service may answer with (response.data).         *)
(***************************************************************************)
NoMessage == [t |-> "undef", s |-> <<>>]
Str(words) == [t |-> "string", s |-> words]

Body(success, authenticated, message, names) ==
  [body |-> "object", success |-> success, authenticated |-> authenticated,
   message |-> message, names |-> [t |-> "array", s |-> names]]

NullBody ==
  [body |-> "null", success |-> "undef", authenticated |-> "undef",
   message |-> NoMessage, names |-> [t |-> "undef", s |-> <<>>]]

\* An object with none of the fields: {}.
EmptyBody ==
  [body |-> "object", success |-> "undef", authenticated |-> "undef",
   message |-> NoMessage, names |-> [t |-> "undef", s |-> <<>>]]

\* success and authenticated true, recognized_names missing.
NamelessBody ==
  [body |-> "object", success |-> "true", authenticated |-> "true",
   message |-> Str(<<"ok">>), names |-> [t |-> "undef", s |-> <<>>]]

OracleBodies ==
  { Body("true", "true", Str(<<"ok">>), <<ali>>),
    Body("true", "true", Str(<<"ok">>), <<Zed, Ali>>),
    Body("true", "true", Str(<<"ok">>), <<Bob>>),
    Body("true", "true", Str(<<"ok">>), <<BadPattern, Ali>>),
    Body("true", "true", Str(<<"ok">>), <<Empty>>),
    Body("true", "true", Str(<<"ok">>), <<ali, Ali>>),
    NamelessBody,
    Body("true", "true", NoMessage, <<>>),
    Body("true", "false", Str(<<"unclassified", "-", "no face">>), <<>>),
    Body("true", "false", NoMessage, <<>>),
    Body("false", "false", Str(<<"Unclassified">>), <<>>),
    NullBody,
    EmptyBody }

NoRec ==
  [body |-> "none", success |-> "undef", authenticated |-> "undef",
   message |-> NoMessage, names |-> [t |-> "undef", s |-> <<>>]]

\* callFacialRecognition, lines 117-124: no image, no request.
NoImageResult ==
  Body("false", "false", Str(<<"unclassified", "-", "no image">>), <<>>)

ServiceUnavailableResultWithoutTag ==
  Body("false", "false", Str(<<"service unavailable">>), <<>>)

\* callFacialRecognition, lines 135-143: the request failed.
ServiceUnavailableResult ==
  Body("false", "false", Str(<<"unclassified", "-", "service unavailable">>), <<>>)

(***************************************************************************)
(* validateVisitor up to its first await (lines 146-163).                  *)
(***************************************************************************)
Validation(kind, isAuthorized, visitorName) ==
  [kind |-> kind, isAuthorized |-> isAuthorized, visitorName |-> visitorName]

\* recognitionResult.recognized_names || []
RecognizedNames(rr) == IF rr.names.t = "array" THEN rr.names.s ELSE <<>>

validateVisitorAlwaysUnknown(rr) ==
  IF rr.body = "null"
  THEN Validation("throw", FALSE, <<>>)
  ELSE IF ~Truthy(rr.success) \/ ~Truthy(rr.authenticated)
  THEN Validation("return", FALSE, Unknown)
  ELSE IF Len(RecognizedNames(rr)) = 0
  THEN Validation("return", FALSE, Unknown)
  ELSE Validation("loop", FALSE, <<>>)

validateVisitor(rr) ==
  IF rr.body = "null"
  THEN Validation("throw", FALSE, <<>>)
  ELSE IF ~Truthy(rr.success) \/ ~Truthy(rr.authenticated)
  THEN IF rr.message.t = "number"
       THEN Validation("throw", FALSE, <<>>)
       ELSE Validation("return", FALSE,
                       IF rr.message.t = "string" /\ Includes(rr.message.s, "unclassified")
                       THEN Unclassified ELSE Unknown)
  ELSE IF Len(RecognizedNames(rr)) = 0
  THEN Validation("return", FALSE, Unknown)
  ELSE Validation("loop", FALSE, <<>>)

validateVisitorCatchUnknown(rr) == Validation("return", FALSE, Unknown)

\* The catch block of validateVisitor (lines 190-197).
validateVisitorCatch(rr) ==
  Validation("return", FALSE,
             IF Len(RecognizedNames(rr)) > 0 THEN RecognizedNames(rr)[1] ELSE Unknown)

validateVisitorNoMatchUnknown(rr) == Validation("return", FALSE, Unknown)

\* Lines 185-188: recognized but not authorized.
validateVisitorNoMatch(rr) == Validation("return", FALSE, RecognizedNames(rr)[1])

validateVisitorMatchFirstVisitOnly(visitor) ==
  Validation("return", visitor.visitCount = 1, visitor.name)

\* Lines 177-180.
validateVisitorMatch(visitor) == Validation("return", TRUE, visitor.name)

(***************************************************************************)
(* processDoorbellEvent, lines 97-106.                                     *)
(***************************************************************************)
NoResult ==
  [kind |-> "none", deviceId |-> "", timestamp |-> 0, originalTimestamp |-> "",
   recognized |-> "undef", name |-> <<>>, authorized |-> FALSE,
   imageReference |-> "", messageType |-> ""]

FinalResultAuthorizesRecognized(eventId, eventData, now, processedImage, rr, val) ==
  [kind |-> "result",
   deviceId |-> IF Truthy(eventData.deviceId) THEN eventData.deviceId ELSE "esp32-doorbell",
   timestamp |-> now,
   originalTimestamp |->
     IF Truthy(eventData.timestamp) THEN eventData.timestamp ELSE eventData.createdAt,
   recognized |-> JsAnd(rr.success, rr.authenticated),
   name |-> IF Len(val.visitorName) > 0 THEN val.visitorName ELSE Unknown,
   authorized |-> Truthy(JsAnd(rr.success, rr.authenticated)),
   imageReference |-> IF Truthy(processedImage) THEN eventId ELSE "null",
   messageType |-> IF Truthy(eventData.messageType) THEN eventData.messageType
                   ELSE "motion_detection"]

FinalResult(eventId, eventData, now, processedImage, rr, val) ==
  [kind |-> "result",
   deviceId |-> IF Truthy(eventData.deviceId) THEN eventData.deviceId ELSE "esp32-doorbell",
   timestamp |-> now,
   originalTimestamp |->
     IF Truthy(eventData.timestamp) THEN eventData.timestamp ELSE eventData.createdAt,
   recognized |-> JsAnd(rr.success, rr.authenticated),
   name |-> IF Len(val.visitorName) > 0 THEN val.visitorName ELSE Unknown,
   authorized |-> val.isAuthorized,
   imageReference |-> IF Truthy(processedImage) THEN eventId ELSE "null",
   messageType |-> IF Truthy(eventData.messageType) THEN eventData.messageType
                   ELSE "motion_detection"]

\* new Date(createdAt).toISOString() throws a RangeError on an invalid date;
\* it is only evaluated when timestamp is falsy (line 71).
ActualTimestampThrows(eventData) ==
  ~Truthy(eventData.timestamp) /\ ~Truthy(eventData.createdAt)

(***************************************************************************)
(* State.                                                                  *)
(***************************************************************************)
VARIABLES
  eventData,      \* /doorbell_events/{id}: the payload the device wrote
  processed,      \* /doorbell_events/{id}/processed
  results,        \* /recognition_results/{id}
  visitors,       \* SmartBellDB.visitors
  notifications,  \* messages accepted by admin.messaging().send
  run,            \* the handler runs: one per child_added callback
  nruns,          \* callbacks made so far
  alive,          \* the Node process has not been ended by an unhandled rejection
  isInitialized,  \* this.isInitialized
  listeners       \* child_added callbacks registered on /doorbell_events

vars ==
  <<eventData, processed, results, visitors, notifications, run, nruns, alive,
    isInitialized, listeners>>

NoDoc == [id |-> 0, read |-> 0, visitCount |-> 0, name |-> <<>>]

\* The awaits a handler run can be suspended at, and a fetch that never returns.
FlightPcs == {"claim", "get", "post", "findOne", "save", "set", "send", "reset", "hung"}

\* dup records, for the properties only, that the callback was invoked while
\* another run of the same event was still in flight.
IdleRun ==
  [ev |-> "", pc |-> "idle", snap |-> FALSE, img |-> "undef", rec |-> NoRec,
   idx |-> 0, doc |-> NoDoc, fin |-> NoResult, trace |-> <<>>, dup |-> FALSE]

Init ==
  /\ eventData = Payloads
  /\ processed = [e \in Events |-> FALSE]
  /\ results = [e \in Events |-> NoResult]
  /\ visitors \in VisitorCollections
  /\ notifications = {}
  /\ run = [r \in Runs |-> IdleRun]
  /\ nruns = 0
  /\ alive = TRUE
  /\ isInitialized = FALSE
  /\ listeners = 0

Log(rn, what) == [rn EXCEPT !.trace = Append(@, what)]

(***************************************************************************)
(* Synchronous continuations of a run: each takes the run at the point     *)
(* where an await has returned and yields the run at its next await.       *)
(***************************************************************************)

\* The catch block of the listener callback (lines 54-57): the reset write
\* is started.
ToCatch(rn) == [rn EXCEPT !.pc = "reset"]

AfterValidateSkipsSink(rn, r, val) ==
  [rn EXCEPT !.fin = FinalResult(rn.ev, eventData[rn.ev], r, rn.img, rn.rec, val),
             !.pc = "send"]

\* Lines 97-108: the result is built and resultRef.set is started.
AfterValidate(rn, r, val) ==
  [rn EXCEPT !.fin = FinalResult(rn.ev, eventData[rn.ev], r, rn.img, rn.rec, val),
             !.pc = "set"]

\* The for loop of validateVisitor at candidate i (lines 165-188).
NextCandidate(rn, r, i) ==
  LET names == RecognizedNames(rn.rec) IN
  IF i > Len(names) THEN AfterValidate(rn, r, validateVisitorNoMatch(rn.rec))
  ELSE IF RegExpThrows(names[i]) THEN AfterValidate(rn, r, validateVisitorCatch(rn.rec))
  ELSE [rn EXCEPT !.idx = i, !.pc = "findOne"]

\* Lines 94-96: validateVisitor is entered with the recognition result.
AfterRecognition(rn, r, rr) ==
  LET rn1 == [rn EXCEPT !.rec = rr]
      val == validateVisitor(rr)
  IN CASE val.kind = "throw" -> ToCatch(rn1)
       [] val.kind = "return" -> AfterValidate(rn1, r, val)
       [] OTHER -> NextCandidate(rn1, r, 1)

AfterImageAlwaysPosts(rn, r, processedImage) ==
  [rn EXCEPT !.img = processedImage, !.pc = "post"]

\* Line 91: callFacialRecognition is entered with the image.
AfterImage(rn, r, processedImage) ==
  LET rn1 == [rn EXCEPT !.img = processedImage] IN
  IF ~Truthy(processedImage) THEN AfterRecognition(rn1, r, NoImageResult)
  ELSE [rn1 EXCEPT !.pc = "post"]

\* Lines 64-88: processDoorbellEvent is entered.
processDoorbellEvent(rn, r) ==
  LET data == eventData[rn.ev] IN
  IF ActualTimestampThrows(data) THEN ToCatch(rn)
  ELSE IF Truthy(data.image) THEN AfterImage(rn, r, data.image)
  ELSE IF Truthy(data.imageUrl) THEN [rn EXCEPT !.pc = "get"]
  ELSE AfterImage(rn, r, "null")

(***************************************************************************)
(* The child_added callback (lines 39-59).                                 *)
(***************************************************************************)

AlreadyProcessedNever(snapshotProcessed) == FALSE

\* Line 44: eventData.processed === true.
AlreadyProcessed(snapshotProcessed) == snapshotProcessed = TRUE

OnClaimRejectedContinues(rn, r) == processDoorbellEvent(rn, r)

\* The claim write was rejected: control goes to the catch block (line 54).
OnClaimRejected(rn, r) == ToCatch(rn)

OnSendRejectedThrows(rn) == ToCatch(rn)

\* sendPushNotification swallows a rejected send (lines 254-257) and
\* processDoorbellEvent returns normally.
OnSendRejected(rn) == [rn EXCEPT !.pc = "done"]

\* The node /doorbell_events/{e}: the device's fields and the processed child.
EventNode(e) == [data |-> eventData[e], processed |-> processed[e]]

RefSetInstead(node, flag) ==
  [data |-> Payload("undef", "undef", "undef", "undef", "undef", "undef"),
   processed |-> flag]

\* snapshot.ref.update({ processed: flag }) (lines 52, 57): update writes the
\* named child and leaves the other children of the node as they are.
RefUpdate(node, flag) == [node EXCEPT !.processed = flag]

\* initialize() (lines 11-31), which has no await and so runs as one step.
\* A call on an initialized service returns at once.  Otherwise the
\* credentials are parsed and the app created ("env" when that throws, before
\* the flag is touched), the flag is set (line 23), and startEventListener is
\* called (line 26), which registers the callback or throws ("listener").
Initialize(outcome) ==
  /\ alive
  /\ ~isInitialized
  /\ isInitialized' = (outcome # "env")
  /\ listeners' = IF outcome = "ok" THEN listeners + 1 ELSE listeners
  /\ UNCHANGED <<eventData, processed, results, visitors, notifications, run, nruns, alive>>

\* The Node process is stopped and started again: the handlers in flight are
\* gone, the constructor (lines 6-9) rebuilds the service and nothing is
\* subscribed until initialize() is called.  The databases keep their state.
\* Restarts are followed while the listener can still be given a callback.
Restart ==
  /\ nruns < MaxRuns
  /\ run' = [r \in Runs |->
              IF run[r].pc \in FlightPcs THEN [run[r] EXCEPT !.pc = "crashed"]
              ELSE run[r]]
  /\ alive' = TRUE
  /\ isInitialized' = FALSE
  /\ listeners' = 0
  /\ UNCHANGED <<eventData, processed, results, visitors, notifications, nruns>>

\* The callback is invoked with a snapshot of event e; the guard is evaluated
\* and, if it lets the event through, the claim write is started.
ChildAdded(e) ==
  /\ alive
  /\ listeners > 0
  /\ nruns < MaxRuns
  /\ LET r == nruns + 1
         rn == [IdleRun EXCEPT !.ev = e, !.snap = processed[e],
                               !.dup = \E q \in Runs : /\ run[q].ev = e
                                                       /\ run[q].pc \in FlightPcs]
     IN run' = [run EXCEPT ![r] =
                  IF AlreadyProcessed(rn.snap) THEN [rn EXCEPT !.pc = "skipped"]
                  ELSE [rn EXCEPT !.pc = "claim"]]
  /\ nruns' = nruns + 1
  /\ UNCHANGED <<eventData, processed, results, visitors, notifications, alive, isInitialized, listeners>>

ClaimUpdateClaimsAll(r) ==
  /\ alive
  /\ run[r].pc = "claim"
  /\ processed' = [e \in Events |-> TRUE]
  /\ run' = [run EXCEPT ![r] = processDoorbellEvent(Log(run[r], "claim"), r)]
  /\ UNCHANGED <<eventData, results, visitors, notifications, nruns, alive,
                 isInitialized, listeners>>

\* await snapshot.ref.update({ processed: true }) returns (line 52).
ClaimUpdate(r) ==
  /\ alive
  /\ run[r].pc = "claim"
  /\ \E ok \in BOOLEAN :
       IF ok
       THEN /\ eventData' = [eventData EXCEPT ![run[r].ev] =
                                RefUpdate(EventNode(run[r].ev), TRUE).data]
            /\ processed' = [processed EXCEPT ![run[r].ev] =
                                RefUpdate(EventNode(run[r].ev), TRUE).processed]
            /\ run' = [run EXCEPT ![r] = processDoorbellEvent(Log(run[r], "claim"), r)]
       ELSE /\ eventData' = eventData
            /\ processed' = processed
            /\ run' = [run EXCEPT ![r] = OnClaimRejected(Log(run[r], "claimFail"), r)]
  /\ UNCHANGED <<results, visitors, notifications, nruns, alive, isInitialized, listeners>>

\* await axios.get(imageUrl) returns (lines 78-84).
AxiosGet(r) ==
  /\ alive
  /\ run[r].pc = "get"
  /\ \E ok \in BOOLEAN :
       run' = [run EXCEPT ![r] =
                 IF ok THEN AfterImage(Log(run[r], "get"), r, "b64")
                 ELSE AfterImage(Log(run[r], "getFail"), r, "null")]
  /\ UNCHANGED <<eventData, processed, results, visitors, notifications, nruns, alive, isInitialized, listeners>>

\* await axios.post(.../recognize) returns (lines 126-143).
AxiosPost(r) ==
  /\ alive
  /\ run[r].pc = "post"
  /\ \/ \E body \in OracleBodies :
          run' = [run EXCEPT ![r] = AfterRecognition(Log(run[r], "post"), r, body)]
     \/ run' = [run EXCEPT ![r] =
                  AfterRecognition(Log(run[r], "postFail"), r, ServiceUnavailableResult)]
  /\ UNCHANGED <<eventData, processed, results, visitors, notifications, nruns, alive, isInitialized, listeners>>

\* The request options: axios.post is given timeout: 30000 (line 130),
\* axios.get only responseType (line 79), and axios has no default timeout.
HasTimeout(call) == call = "post"

\* The peer of a pending HTTP request never answers.  With a timeout the
\* request is rejected and handled as any failed request; without one the
\* await never returns.
NeverResponds(r) ==
  /\ alive
  /\ run[r].pc \in {"get", "post"}
  /\ run' = [run EXCEPT ![r] =
              IF ~HasTimeout(run[r].pc) THEN [run[r] EXCEPT !.pc = "hung"]
              ELSE AfterRecognition(Log(run[r], "postFail"), r, ServiceUnavailableResult)]
  /\ UNCHANGED <<eventData, processed, results, visitors, notifications, nruns, alive, isInitialized, listeners>>

\* visitor.visitCount += 1 on the loaded document (line 173).
LoadAndCountForgetsIncrement(vs, v) ==
  [id |-> v, read |-> vs[v].visitCount, visitCount |-> vs[v].visitCount,
   name |-> vs[v].name]

LoadAndCount(vs, v) ==
  [id |-> v, read |-> vs[v].visitCount, visitCount |-> vs[v].visitCount + 1,
   name |-> vs[v].name]

VisitorFindOneKeepsLooking(r) ==
  /\ alive
  /\ run[r].pc = "findOne"
  /\ \E ok \in BOOLEAN :
       LET rn == run[r]
           v == FindOne(visitors, RecognizedNames(rn.rec)[rn.idx])
       IN run' = [run EXCEPT ![r] =
            IF ~ok THEN AfterValidate(Log(rn, "findFail"), r, validateVisitorCatch(rn.rec))
            ELSE IF v = 0 THEN NextCandidate(Log(rn, "find"), r, rn.idx + 1)
            ELSE IF rn.idx < Len(RecognizedNames(rn.rec))
            THEN [Log(rn, "find") EXCEPT !.doc = LoadAndCount(visitors, v),
                                         !.idx = rn.idx + 1]
            ELSE [Log(rn, "find") EXCEPT !.doc = LoadAndCount(visitors, v),
                                         !.pc = "save"]]
  /\ UNCHANGED <<eventData, processed, results, visitors, notifications, nruns, alive,
                 isInitialized, listeners>>

\* await Visitor.findOne(...) returns (lines 166-174).
VisitorFindOne(r) ==
  /\ alive
  /\ run[r].pc = "findOne"
  /\ \E ok \in BOOLEAN :
       LET rn == run[r]
           v == FindOne(visitors, RecognizedNames(rn.rec)[rn.idx])
       IN run' = [run EXCEPT ![r] =
            IF ~ok THEN AfterValidate(Log(rn, "findFail"), r, validateVisitorCatch(rn.rec))
            ELSE IF v = 0 THEN NextCandidate(Log(rn, "find"), r, rn.idx + 1)
            ELSE [Log(rn, "find") EXCEPT !.doc = LoadAndCount(visitors, v),
                                         !.pc = "save"]]
  /\ UNCHANGED <<eventData, processed, results, visitors, notifications, nruns, alive, isInitialized, listeners>>

\* await visitor.save() returns (lines 175-180): the modified paths
\* visitCount and lastVisit are written with the values held in memory.
VisitorSave(r) ==
  /\ alive
  /\ run[r].pc = "save"
  /\ \E ok \in BOOLEAN :
       LET rn == run[r] IN
       IF ok
       THEN /\ visitors' = [visitors EXCEPT ![rn.doc.id].visitCount = rn.doc.visitCount,
                                            ![rn.doc.id].lastVisit = r]
            /\ run' = [run EXCEPT ![r] =
                         AfterValidate(Log(rn, "save"), r, validateVisitorMatch(rn.doc))]
       ELSE /\ visitors' = visitors
            /\ run' = [run EXCEPT ![r] =
                         AfterValidate(Log(rn, "saveFail"), r, validateVisitorCatch(rn.rec))]
  /\ UNCHANGED <<eventData, processed, results, notifications, nruns, alive, isInitialized, listeners>>

\* Reference.set rejects a value with an undefined property.
SetAccepts(result) == result.recognized # "undef"

ResultRefSetKeepsFirst(rs, eventId, result) ==
  IF rs[eventId].kind = "result" THEN rs ELSE [rs EXCEPT ![eventId] = result]

\* db.ref(`/recognition_results/${eventId}`).set(result), lines 203-205: the
\* value at the path of this event id is replaced.
ResultRefSet(rs, eventId, result) == [rs EXCEPT ![eventId] = result]

\* await resultRef.set(result) returns (lines 200-211); on success
\* sendPushNotification starts the send.
ResultSet(r) ==
  /\ alive
  /\ run[r].pc = "set"
  /\ \E ok \in BOOLEAN :
       LET rn == run[r] IN
       IF ok /\ SetAccepts(rn.fin)
       THEN /\ results' = ResultRefSet(results, rn.ev, rn.fin)
            /\ run' = [run EXCEPT ![r] = [Log(rn, "set") EXCEPT !.pc = "send"]]
       ELSE /\ results' = results
            /\ run' = [run EXCEPT ![r] = ToCatch(Log(rn, "setFail"))]
  /\ UNCHANGED <<eventData, processed, visitors, notifications, nruns, alive, isInitialized, listeners>>

MessageAlwaysVisitor(eventId, finalResult) ==
  [eventId |-> eventId,
   title |-> <<"Visitor:", finalResult.name>>,
   name |-> finalResult.name,
   authorized |-> FromBool(finalResult.authorized),
   timestamp |-> finalResult.timestamp]

\* The FCM message built by sendPushNotification (lines 215-231).
Message(eventId, finalResult) ==
  [eventId |-> eventId,
   title |-> IF finalResult.authorized THEN <<"Welcome", finalResult.name, "!">>
             ELSE <<"Visitor:", finalResult.name>>,
   name |-> finalResult.name,
   authorized |-> FromBool(finalResult.authorized),
   timestamp |-> finalResult.timestamp]

\* await admin.messaging().send(message) returns (lines 250-257).
MessagingSend(r) ==
  /\ alive
  /\ run[r].pc = "send"
  /\ \E ok \in BOOLEAN :
       LET rn == run[r] IN
       IF ok
       THEN /\ notifications' = notifications \cup {Message(rn.ev, rn.fin)}
            /\ run' = [run EXCEPT ![r] = [Log(rn, "send") EXCEPT !.pc = "done"]]
       ELSE /\ notifications' = notifications
            /\ run' = [run EXCEPT ![r] = OnSendRejected(Log(rn, "sendFail"))]
  /\ UNCHANGED <<eventData, processed, results, visitors, nruns, alive, isInitialized, listeners>>

\* await snapshot.ref.update({ processed: false }) returns (line 57).  A
\* rejection here is thrown out of the catch block: the callback's promise
\* rejects with nobody to handle it, which ends the process or not depending
\* on the Node version and its unhandled-rejection mode.
ResetUpdate(r) ==
  /\ alive
  /\ run[r].pc = "reset"
  /\ \E ok \in BOOLEAN :
       LET rn == run[r] IN
       IF ok
       THEN /\ eventData' = [eventData EXCEPT ![rn.ev] =
                                RefUpdate(EventNode(rn.ev), FALSE).data]
            /\ processed' = [processed EXCEPT ![rn.ev] =
                                RefUpdate(EventNode(rn.ev), FALSE).processed]
            /\ run' = [run EXCEPT ![r] = [Log(rn, "reset") EXCEPT !.pc = "failed"]]
            /\ alive' = alive
       ELSE /\ eventData' = eventData
            /\ processed' = processed
            /\ run' = [run EXCEPT ![r] = [Log(rn, "resetFail") EXCEPT !.pc = "rejected"]]
            /\ alive' \in BOOLEAN
  /\ UNCHANGED <<results, visitors, notifications, nruns, isInitialized, listeners>>

Next ==
  \/ \E outcome \in {"env", "listener", "ok"} : Initialize(outcome)
  \/ Restart
  \/ \E e \in Events : ChildAdded(e)
  \/ \E r \in Runs : ClaimUpdate(r)
  \/ \E r \in Runs : AxiosGet(r)
  \/ \E r \in Runs : AxiosPost(r)
  \/ \E r \in Runs : NeverResponds(r)
  \/ \E r \in Runs : VisitorFindOne(r)
  \/ \E r \in Runs : VisitorSave(r)
  \/ \E r \in Runs : ResultSet(r)
  \/ \E r \in Runs : MessagingSend(r)
  \/ \E r \in Runs : ResetUpdate(r)

Spec == Init /\ [][Next]_vars

(***************************************************************************)
(* Vocabulary of the properties.                                           *)
(***************************************************************************)
Started(r) == run[r].pc # "idle"

Has(r, what) == \E k \in 1..Len(run[r].trace) : run[r].trace[k] = what

Last(t) == t[Len(t)]

\* The awaits of processDoorbellEvent, and what their completion logs.
PipelinePcs == {"get", "post", "findOne", "save", "set", "send"}

PipelineLogs ==
  {"get", "getFail", "post", "postFail", "find", "findFail", "save", "saveFail",
   "set", "setFail", "send", "sendFail"}

StoreLogs == {"find", "findFail", "save", "saveFail"}

\* The handler has returned or thrown.
Finished(r) == run[r].pc \in {"skipped", "done", "failed", "rejected"}

\* The run is past its claim write and inside processDoorbellEvent.
InPipeline(r) == run[r].pc \in PipelinePcs

\* Stage of a log entry: image, oracle, store, sink, notification.
Rank(what) ==
  CASE what \in {"claim", "claimFail"} -> 0
    [] what \in {"get", "getFail"} -> 1
    [] what \in {"post", "postFail"} -> 2
    [] what \in StoreLogs -> 3
    [] what \in {"set", "setFail"} -> 4
    [] what \in {"send", "sendFail"} -> 5
    [] OTHER -> 6

\* Stage of the call a run is waiting on.
PcRank(pc) ==
  CASE pc = "claim" -> 0
    [] pc = "get" -> 1
    [] pc = "post" -> 2
    [] pc \in {"findOne", "save"} -> 3
    [] pc = "set" -> 4
    [] pc = "send" -> 5
    [] OTHER -> 6

(***************************************************************************)
(* C1. Redelivery safety: a callback whose snapshot already has            *)
(* processed = true returns at once; it completes no I/O call of any kind  *)
(* (no fetch, oracle call, store query or update, sink write,              *)
(* notification or flag write) and has none pending.                       *)
(***************************************************************************)
C1_RedeliveryIsNoOp ==
  \A r \in Runs :
    Started(r) /\ run[r].snap = TRUE =>
      /\ run[r].pc = "skipped"
      /\ run[r].trace = <<>>
      /\ run[r].fin = NoResult

C1_Witness ==
  \E r \in Runs :
    /\ run[r].pc = "skipped"
    /\ run[r].snap = TRUE
    /\ processed[run[r].ev] = TRUE

(***************************************************************************)
(* C2. For one event id, two runs never both pass the claim guard and      *)
(* execute the pipeline while the process stays up.                        *)
(***************************************************************************)
C2_AtMostOneRunPerEvent ==
  alive =>
    \A r1, r2 \in Runs :
      r1 # r2 /\ run[r1].ev = run[r2].ev /\ InPipeline(r1) => ~InPipeline(r2)

(***************************************************************************)
(* C3. A run is in a pipeline stage, or has completed one, only after its  *)
(* own claim write has completed successfully; a run whose claim write     *)
(* failed never enters a pipeline stage.                                   *)
(***************************************************************************)
C3_ClaimBeforeWork ==
  \A r \in Runs :
    /\ (InPipeline(r) \/ \E w \in PipelineLogs : Has(r, w)) =>
         /\ run[r].trace # <<>>
         /\ run[r].trace[1] = "claim"
    /\ Has(r, "claimFail") =>
         /\ ~InPipeline(r)
         /\ \A w \in PipelineLogs : ~Has(r, w)

C3_Witness ==
  \E r1, r2 \in Runs :
    /\ run[r1].pc = "done" /\ run[r1].trace[1] = "claim"
    /\ run[r2].pc = "failed" /\ run[r2].trace[1] = "claimFail"

(***************************************************************************)
(* C4. When a run that ended in an uncaught failure leaves its handler     *)
(* (the catch block has run), the processed flag of its event is false.    *)
(***************************************************************************)
C4_FailedRunLeavesFlagFalse ==
  [][\A r \in Runs :
       run[r].pc = "reset" /\ run'[r].pc \in {"failed", "rejected"} =>
         processed'[run[r].ev] = FALSE]_vars

(***************************************************************************)
(* C5. A failed Result Sink write is a hard failure of the run: the error  *)
(* reaches the catch block of the listener, the run dispatches no          *)
(* notification, and when the handler is left the processed flag of the    *)
(* event has been reset to false.                                          *)
(***************************************************************************)
C5_SinkFailureIsHardFailure ==
  /\ [](\A r \in Runs :
          Has(r, "setFail") =>
            /\ run[r].pc \in {"reset", "failed", "rejected"}
            /\ ~Has(r, "send") /\ ~Has(r, "sendFail"))
  /\ [][\A r \in Runs :
          Has(r, "setFail") /\ run[r].pc = "reset" /\ run'[r].pc # "reset" =>
            processed'[run[r].ev] = FALSE]_vars

(***************************************************************************)
(* C6. Within one run the completed calls appear in the order image fetch, *)
(* oracle call, store calls, sink write, notification; only the store      *)
(* stage makes more than one call; the call a run is waiting on is never   *)
(* of an earlier stage than a completed one; and a notification is started *)
(* only by a run whose own sink write has succeeded, so that a result is   *)
(* stored under the event id.                                              *)
(***************************************************************************)
C6_StagesInOrder ==
  \A r \in Runs :
    LET t == run[r].trace IN
    /\ \A i, j \in 1..Len(t) :
         i < j => /\ Rank(t[i]) <= Rank(t[j])
                  /\ (Rank(t[i]) = Rank(t[j]) => Rank(t[i]) = 3)
    /\ (InPipeline(r) /\ t # <<>>) =>
         /\ Rank(Last(t)) <= PcRank(run[r].pc)
         /\ (Rank(Last(t)) = PcRank(run[r].pc) => PcRank(run[r].pc) = 3)
    /\ (run[r].pc = "send" \/ Has(r, "send") \/ Has(r, "sendFail")) =>
         /\ Has(r, "set")
         /\ results[run[r].ev].kind = "result"

C6_Witness ==
  \E r \in Runs :
    /\ run[r].pc = "done"
    /\ run[r].trace = <<"claim", "get", "post", "find", "save", "set", "send">>

(***************************************************************************)
(* C7. A rejected notification send does not fail the run: the handler     *)
(* returns normally with the send as its last call (no reset write, no     *)
(* retry), and the step leaves every processed flag and every stored       *)
(* result as it was.                                                       *)
(***************************************************************************)
C7_SendFailureIsSwallowed ==
  /\ [](\A r \in Runs :
          Has(r, "sendFail") =>
            /\ run[r].pc = "done"
            /\ Last(run[r].trace) = "sendFail")
  /\ [][\A r \in Runs :
          run[r].pc = "send" /\ run'[r].pc \notin {"send", "crashed"} =>
            /\ run'[r].pc = "done"
            /\ processed' = processed
            /\ results' = results]_vars

C7_Witness ==
  \E r \in Runs :
    /\ run[r].pc = "done"
    /\ Has(r, "sendFail")
    /\ processed[run[r].ev] = TRUE
    /\ results[run[r].ev] = run[r].fin

(***************************************************************************)
(* C8. No error escapes a per-event handler and the listener stays up,     *)
(* whatever faults the collaborators raise.                                *)
(***************************************************************************)
C8_NoErrorEscapes ==
  /\ alive
  /\ \A r \in Runs : run[r].pc # "rejected"

(***************************************************************************)
(* C9. Inline image, oracle answers success and authenticated with a       *)
(* candidate naming an authorized visitor.                                 *)
(***************************************************************************)
\* Candidate i of the recognition result names an authorized visitor.
Names(rr, i) ==
  /\ ~RegExpThrows(RecognizedNames(rr)[i])
  /\ FindOne(visitors, RecognizedNames(rr)[i]) # 0

NamesAuthorized(rr) == \E i \in 1..Len(RecognizedNames(rr)) : Names(rr, i)

\* The first such candidate, and the visitor it names.
FirstNaming(rr) ==
  CHOOSE i \in 1..Len(RecognizedNames(rr)) :
    Names(rr, i) /\ \A j \in 1..(i - 1) : ~Names(rr, j)

NamedVisitor(rr) == FindOne(visitors, RecognizedNames(rr)[FirstNaming(rr)])

\* The run wrote a result for an inline image the oracle matched to an
\* authorized visitor.
MatchedInline(r) ==
  /\ Has(r, "post")
  /\ Truthy(eventData[run[r].ev].image)
  /\ run[r].rec.body = "object"
  /\ run[r].rec.success = "true"
  /\ run[r].rec.authenticated = "true"
  /\ NamesAuthorized(run[r].rec)
  /\ Has(r, "set")

\* What C9 promises of such a run: the result fields, and a saved count one
\* above the count read at lookup.
AuthorizedOutcome(r) ==
  /\ run[r].fin.authorized = TRUE
  /\ run[r].fin.recognized = "true"
  /\ run[r].fin.name = visitors[NamedVisitor(run[r].rec)].name
  /\ Has(r, "save")
  /\ run[r].doc.id = NamedVisitor(run[r].rec)
  /\ run[r].doc.visitCount = run[r].doc.read + 1

StoreCallsSucceed(r) ==
  /\ ~Has(r, "findFail")
  /\ ~Has(r, "saveFail")
  /\ \A j \in 1..(FirstNaming(run[r].rec) - 1) :
       ~RegExpThrows(RecognizedNames(run[r].rec)[j])

NotAuthenticated(rr) ==
  rr.body = "object" /\ (rr.success = "false" \/ rr.authenticated = "false")

C10_NotAuthenticated ==
  \A r \in Runs :
    NotAuthenticated(run[r].rec) =>
      /\ run[r].pc \notin {"findOne", "save"}
      /\ \A w \in StoreLogs : ~Has(r, w)
      /\ Has(r, "set") =>
           /\ run[r].fin.authorized = FALSE
           /\ run[r].fin.recognized = "false"
           /\ run[r].fin.name \in {Unknown, Unclassified}
           /\ run[r].fin.name = Unclassified <=>
                /\ run[r].rec.message.t = "string"
                /\ \E k \in 1..Len(run[r].rec.message.s) :
                     run[r].rec.message.s[k] = "unclassified"

C10_Witness ==
  \E r1, r2 \in Runs :
    /\ run[r1].pc = "done" /\ Has(r1, "post")
    /\ NotAuthenticated(run[r1].rec)
    /\ results[run[r1].ev].name = Unclassified
    /\ run[r2].pc = "done" /\ Has(r2, "post")
    /\ NotAuthenticated(run[r2].rec)
    /\ run[r2].rec.message = NoMessage
    /\ results[run[r2].ev].name = Unknown

(***************************************************************************)
(* C11. Recognized but not authorized: the oracle answers success and      *)
(* authenticated with a non-empty candidate list of which no candidate     *)
(* matches an authorized visitor.                                          *)
(***************************************************************************)
\* The run wrote a result for such an oracle answer.
RecognizedUnauthorized(r) ==
  /\ Has(r, "post")
  /\ run[r].rec.body = "object"
  /\ run[r].rec.success = "true"
  /\ run[r].rec.authenticated = "true"
  /\ Len(RecognizedNames(run[r].rec)) > 0
  /\ ~NamesAuthorized(run[r].rec)
  /\ Has(r, "set")

\* The run has not touched a visitor record and is not about to.
NoVisitorModified(r) ==
  /\ ~Has(r, "save") /\ ~Has(r, "saveFail")
  /\ run[r].pc # "save"
  /\ run[r].doc = NoDoc

\* C11 as stated: the name written is the first candidate string.
C11_AsStated ==
  \A r \in Runs :
    RecognizedUnauthorized(r) =>
      /\ run[r].fin.recognized = "true"
      /\ run[r].fin.authorized = FALSE
      /\ run[r].fin.name = RecognizedNames(run[r].rec)[1]
      /\ NoVisitorModified(r)

\* C11 amended: the written result has recognized=true, authorized=false and
\* the first candidate string as name, or "unknown" when that string is
\* empty; the run modifies no visitor record, and no step of such a run
\* changes the visitor collection.
C11_RecognizedUnauthorized ==
  /\ [](\A r \in Runs :
          RecognizedUnauthorized(r) =>
            /\ run[r].fin.recognized = "true"
            /\ run[r].fin.authorized = FALSE
            /\ run[r].fin.name =
                 IF Len(RecognizedNames(run[r].rec)[1]) > 0
                 THEN RecognizedNames(run[r].rec)[1] ELSE Unknown
            /\ NoVisitorModified(r))
  /\ [][\A r \in Runs :
          /\ run'[r] # run[r]
          /\ run[r].rec.success = "true" /\ run[r].rec.authenticated = "true"
          /\ Len(RecognizedNames(run[r].rec)) > 0
          /\ ~NamesAuthorized(run[r].rec)
          => visitors' = visitors]_vars

C11_Witness ==
  \E r \in Runs :
    /\ RecognizedUnauthorized(r)
    /\ run[r].pc = "done"
    /\ run[r].rec.names.s = <<Bob>>
    /\ Has(r, "find")
    /\ results[run[r].ev].name = Bob
    /\ results[run[r].ev].recognized = "true"
    /\ results[run[r].ev].authorized = FALSE
    /\ visitors[2].visitCount = 0

(***************************************************************************)
(* C12. A failed oracle call (unreachable, timeout, non-2xx) is absorbed.  *)
(***************************************************************************)
\* sendPushNotification has made its send call (accepted or rejected).
Notified(r) == Has(r, "send") \/ Has(r, "sendFail")

\* The run has entered the catch block of the listener.
Caught(r) ==
  \/ run[r].pc \in {"reset", "failed", "rejected"}
  \/ Has(r, "reset") \/ Has(r, "resetFail")

\* The handler returned normally after writing its result and making the
\* send call, without a reset write.
CompletedClaimed(r) ==
  /\ run[r].pc = "done"
  /\ Has(r, "set")
  /\ Notified(r)
  /\ ~Caught(r)

\* The default result of a recognition that did not take place.
UnclassifiedResult(fin) ==
  /\ fin.kind = "result"
  /\ fin.recognized = "false"
  /\ fin.name = Unclassified
  /\ fin.authorized = FALSE

\* C12 as stated: a run whose oracle call failed does not fail, writes the
\* unclassified result, sends a notification and makes no reset write.
C12_AsStated ==
  \A r \in Runs :
    Has(r, "postFail") /\ Finished(r) =>
      /\ UnclassifiedResult(run[r].fin)
      /\ CompletedClaimed(r)

\* C12 amended: the failed oracle call is mapped to the service-unavailable
\* outcome and the run goes straight to the sink write with the
\* unclassified result, making no store call; it enters the catch block
\* only through a failed sink write, and when its sink write succeeds it
\* returns normally with the result written, the send made and no reset.
C12_OracleFailureAbsorbed ==
  \A r \in Runs :
    Has(r, "postFail") =>
      /\ run[r].rec = ServiceUnavailableResult
      /\ \A w \in StoreLogs : ~Has(r, w)
      /\ run[r].pc \notin {"post", "findOne", "save"}
      /\ UnclassifiedResult(run[r].fin)
      /\ Caught(r) => Has(r, "setFail")
      /\ (Finished(r) /\ ~Has(r, "setFail")) => CompletedClaimed(r)

C12_Witness ==
  \E r \in Runs :
    /\ Has(r, "postFail")
    /\ CompletedClaimed(r)
    /\ Has(r, "send")
    /\ results[run[r].ev] = run[r].fin
    /\ results[run[r].ev].name = Unclassified
    /\ processed[run[r].ev] = TRUE

(***************************************************************************)
(* C13. Degraded path: an event with neither image nor imageUrl, or whose  *)
(* imageUrl fetch failed.                                                  *)
(***************************************************************************)
\* The claimed run has no image to work with.
NoImage(r) ==
  /\ Has(r, "claim")
  /\ ~Truthy(eventData[run[r].ev].image)
  /\ (~Truthy(eventData[run[r].ev].imageUrl) \/ Has(r, "getFail"))

NullImageResult(fin) ==
  /\ UnclassifiedResult(fin)
  /\ fin.imageReference = "null"

Malformed(rr) ==
  \/ rr.body = "null"
  \/ rr.body = "object" /\ (rr.success = "undef" \/ rr.authenticated = "undef")

C14_MalformedBodyTolerated ==
  \A r \in Runs :
    Has(r, "post") /\ Malformed(run[r].rec) =>
      /\ Caught(r) => Has(r, "setFail")
      /\ run[r].fin.kind = "result"
      /\ run[r].fin.authorized = FALSE
      /\ run[r].fin.name \in {Unknown, Unclassified}

(***************************************************************************)
(* C15. A failed Authorization Store call (lookup or visit-tracking save). *)
(***************************************************************************)
StoreFailed(r) == Has(r, "findFail") \/ Has(r, "saveFail")

\* C15 as stated: such a run does not fail; it writes authorized=false with
\* the first candidate as name and sends the notification.
C15_AsStated ==
  \A r \in Runs :
    StoreFailed(r) /\ Finished(r) =>
      /\ run[r].fin.authorized = FALSE
      /\ run[r].fin.name = RecognizedNames(run[r].rec)[1]
      /\ CompletedClaimed(r)

\* C15 amended: the failed store call is the run's last store call; the
\* result built has authorized=false, recognized=true and the first
\* candidate as name ("unknown" when that candidate is empty); the run
\* enters the catch block only through a failed sink write, and when its
\* sink write succeeds it returns normally with the send made.
C15_StoreFailureAbsorbed ==
  \A r \in Runs :
    StoreFailed(r) =>
      /\ run[r].pc \notin {"findOne", "save"}
      /\ \A k \in 1..Len(run[r].trace) :
           run[r].trace[k] \in {"findFail", "saveFail"} =>
             \A j \in (k + 1)..Len(run[r].trace) : run[r].trace[j] \notin StoreLogs
      /\ run[r].fin.kind = "result"
      /\ run[r].fin.authorized = FALSE
      /\ run[r].fin.recognized = "true"
      /\ run[r].fin.name =
           IF Len(RecognizedNames(run[r].rec)[1]) > 0
           THEN RecognizedNames(run[r].rec)[1] ELSE Unknown
      /\ Caught(r) => Has(r, "setFail")
      /\ (Finished(r) /\ ~Has(r, "setFail")) => CompletedClaimed(r)

C15_Witness ==
  \E r1, r2 \in Runs :
    /\ Has(r1, "findFail") /\ CompletedClaimed(r1)
    /\ run[r1].rec.names.s = <<Zed, Ali>>
    /\ run[r1].fin.name = Zed
    /\ Has(r2, "saveFail") /\ CompletedClaimed(r2)
    /\ run[r2].rec.names.s = <<ali>>
    /\ run[r2].fin.name = ali
    /\ run[r2].fin.authorized = FALSE
    /\ visitors[1].visitCount = 0

(***************************************************************************)
(* C16. A claimed run enters the catch block (claim reset, no result       *)
(* written) only if its sink write failed, for every payload and every     *)
(* combination of fetch, oracle, store and notification outcomes; a run    *)
(* whose sink write succeeded returns normally without a reset write.      *)
(***************************************************************************)
C16_OnlySinkFailureFails ==
  \A r \in Runs :
    Has(r, "claim") =>
      /\ Caught(r) => Has(r, "setFail")
      /\ (Has(r, "set") /\ Finished(r)) => CompletedClaimed(r)

(***************************************************************************)
(* C17. The sink write is a full replacement keyed by event id: a          *)
(* successful write leaves exactly the written result under its event id   *)
(* and every other id as it was, nothing else changes the sink (so the     *)
(* stored value is that of the last successful write), and writing the     *)
(* same result under the same id a second time changes nothing.            *)
(***************************************************************************)
C17_SinkFullReplacement ==
  /\ [](\A r \in Runs :
          run[r].pc = "set" =>
            ResultRefSet(ResultRefSet(results, run[r].ev, run[r].fin),
                         run[r].ev, run[r].fin)
              = ResultRefSet(results, run[r].ev, run[r].fin))
  /\ [][/\ \A r \in Runs :
             run[r].pc = "set" /\ run'[r].pc = "send" =>
               /\ results'[run[r].ev] = run[r].fin
               /\ \A e \in Events \ {run[r].ev} : results'[e] = results[e]
        /\ results' # results =>
             \E r \in Runs : run[r].pc = "set" /\ run'[r].pc = "send"]_vars

C17_Witness ==
  \E r1, r2 \in Runs :
    /\ r1 # r2
    /\ run[r1].ev = run[r2].ev
    /\ Has(r1, "set") /\ Has(r2, "set")
    /\ run[r1].fin # run[r2].fin
    /\ results[run[r2].ev] = run[r2].fin

(***************************************************************************)
(* C18. When every handler run of an event has finished, one of them past  *)
(* the guard, and the processed flag of the event is true, the sink holds  *)
(* a result for the event.                                                 *)
(***************************************************************************)
C18_ClaimedHasResult ==
  \A e \in Events :
    /\ processed[e] = TRUE
    /\ \E r \in Runs : run[r].ev = e /\ Finished(r)
    /\ \A r \in Runs : run[r].ev = e => Finished(r)
    => results[e].kind = "result"

(***************************************************************************)
(* C19. No run is left waiting for ever on an image fetch or an oracle     *)
(* call whose peer never responds.                                         *)
(***************************************************************************)
C19_NoRunHangs == \A r \in Runs : run[r].pc # "hung"

(***************************************************************************)
(* C20. The recognized, name and authorized fields of the result are a     *)
(* function of the oracle outcome and of the names and authorization flags *)
(* in the visitor collection.                                              *)
(***************************************************************************)
Outcome(fin) == <<fin.recognized, fin.name, fin.authorized>>

IsStoreLog(what) == what \in StoreLogs

\* The store calls the run completed, with their success or failure.
StoreCalls(r) == SelectSeq(run[r].trace, IsStoreLog)

\* Two runs of one event that built a result from the same oracle outcome.
\* The names and authorization flags of the collection never change.
SameInputs(r1, r2) ==
  /\ r1 # r2
  /\ run[r1].ev = run[r2].ev
  /\ run[r1].fin.kind = "result" /\ run[r2].fin.kind = "result"
  /\ run[r1].rec = run[r2].rec

\* C20 as stated.
C20_AsStated ==
  \A r1, r2 \in Runs :
    SameInputs(r1, r2) => Outcome(run[r1].fin) = Outcome(run[r2].fin)

\* C20 amended: the same, for two runs whose store calls also succeeded or
\* failed alike; the names and flags of the collection are never changed.
C20_OutcomeIsFunction ==
  /\ [](\A r1, r2 \in Runs :
          SameInputs(r1, r2) /\ StoreCalls(r1) = StoreCalls(r2) =>
            Outcome(run[r1].fin) = Outcome(run[r2].fin))
  /\ [][\A v \in VisitorIds :
          /\ visitors'[v].name = visitors[v].name
          /\ visitors'[v].isAuthorized = visitors[v].isAuthorized]_vars

C20_Witness ==
  \E r1, r2 \in Runs :
    /\ SameInputs(r1, r2)
    /\ Has(r1, "save") /\ Has(r2, "save")
    /\ run[r1].doc.read # run[r2].doc.read
    /\ visitors[1].visitCount = 2
    /\ Outcome(run[r1].fin) = <<"true", Ali, TRUE>>
    /\ Outcome(run[r2].fin) = <<"true", Ali, TRUE>>

(***************************************************************************)
(* C21. Every notification accepted for an event carries the event id and  *)
(* the name, authorized and timestamp of the result written by the run     *)
(* that sent it, with title "Welcome <name>!" when authorized and          *)
(* "Visitor: <name>" otherwise; a run makes at most one send call, and the *)
(* result it sends is the one it wrote.                                    *)
(***************************************************************************)
IsSendLog(what) == what \in {"send", "sendFail"}

\* The message reports the result fin for event e.
Reports(m, e, fin) ==
  /\ m.eventId = e
  /\ m.name = fin.name
  /\ m.authorized = FromBool(fin.authorized)
  /\ m.timestamp = fin.timestamp
  /\ m.title = IF fin.authorized THEN <<"Welcome", fin.name, "!">>
               ELSE <<"Visitor:", fin.name>>

C21_NotificationMatchesResult ==
  /\ [](/\ \A m \in notifications :
             \E r \in Runs :
               /\ Has(r, "set") /\ Has(r, "send")
               /\ Reports(m, run[r].ev, run[r].fin)
        /\ \A r \in Runs : Len(SelectSeq(run[r].trace, IsSendLog)) <= 1)
  /\ [][\A r \in Runs :
          /\ run[r].pc = "set" /\ run'[r].pc = "send" =>
               results'[run[r].ev] = run'[r].fin
          /\ run[r].pc = "send" /\ Last(run'[r].trace) = "send" =>
               /\ run'[r].fin = run[r].fin
               /\ notifications' = notifications \cup {Message(run[r].ev, run[r].fin)}
               /\ \E m \in notifications' : Reports(m, run[r].ev, run[r].fin)]_vars

C21_Witness ==
  \E r1, r2 \in Runs :
    /\ run[r1].pc = "done" /\ Has(r1, "send") /\ run[r1].fin.authorized = TRUE
    /\ run[r2].pc = "done" /\ Has(r2, "send") /\ run[r2].fin.authorized = FALSE
    /\ \E m \in notifications :
         /\ Reports(m, run[r1].ev, run[r1].fin)
         /\ m.title = <<"Welcome", Ali, "!">>
    /\ \E m \in notifications :
         /\ Reports(m, run[r2].ev, run[r2].fin)
         /\ m.title = <<"Visitor:", Unclassified>>

(***************************************************************************)
(* C22. Runs of distinct events are independent: a step of a run for event *)
(* e leaves the processed flag and the stored result of every other event  *)
(* unchanged; and while a run for one event is suspended at an I/O point   *)
(* a run for another event can be claimed, processed and completed.        *)
(***************************************************************************)
C22_EventsIndependent ==
  [][\A r \in Runs :
       run[r].pc \in FlightPcs /\ run'[r] # run[r] =>
         \A e \in Events \ {run[r].ev} :
           /\ processed'[e] = processed[e]
           /\ results'[e] = results[e]]_vars

\* Run r1 is suspended at pc while a later run for another event completed.
OvertakenAt(pc) ==
  \E r1, r2 \in Runs :
    /\ r1 < r2
    /\ run[r1].ev # run[r2].ev
    /\ run[r1].pc = pc
    /\ run[r2].pc = "done"
    /\ results[run[r2].ev] = run[r2].fin
    /\ processed[run[r1].ev] = TRUE /\ processed[run[r2].ev] = TRUE
    /\ results[run[r1].ev] = NoResult

C22_Witness ==
  OvertakenAt("post")

(***************************************************************************)
(* C23. First match wins in candidate order: a run looks the candidates up *)
(* in list order, one lookup each; the visitor it loads is the one the     *)
(* first matching candidate names, no candidate before it having matched;  *)
(* after loading it the run makes no further lookup and at most one save;  *)
(* and a step of the run that changes the visitor collection is the save   *)
(* of exactly that visitor, which writes the count read plus one and       *)
(* refreshes lastVisit.                                                    *)
(***************************************************************************)
IsFindLog(what) == what \in {"find", "findFail"}

IsSaveLog(what) == what \in {"save", "saveFail"}

\* Lookups the run has completed.
Lookups(r) == Len(SelectSeq(run[r].trace, IsFindLog))

C23_FirstMatchWins ==
  /\ [](\A r \in Runs :
          /\ run[r].pc = "findOne" =>
               /\ run[r].idx = Lookups(r) + 1
               /\ run[r].doc = NoDoc
               /\ \A j \in 1..(run[r].idx - 1) : ~Names(run[r].rec, j)
          /\ run[r].doc # NoDoc =>
               /\ Lookups(r) = run[r].idx
               /\ ~Has(r, "findFail")
               /\ \A j \in 1..(run[r].idx - 1) : ~Names(run[r].rec, j)
               /\ run[r].doc.id = FindOne(visitors, RecognizedNames(run[r].rec)[run[r].idx])
          /\ Len(SelectSeq(run[r].trace, IsSaveLog)) <= 1)
  /\ [][\A r \in Runs :
          run'[r] # run[r] /\ visitors' # visitors =>
            /\ run[r].pc = "save"
            /\ Last(run'[r].trace) = "save"
            /\ visitors'[run[r].doc.id] =
                 [visitors[run[r].doc.id] EXCEPT !.visitCount = run[r].doc.read + 1,
                                                 !.lastVisit = r]
            /\ \A v \in VisitorIds \ {run[r].doc.id} : visitors'[v] = visitors[v]]_vars

C23_Witness ==
  \E r1, r2 \in Runs :
    /\ run[r1].pc = "done"
    /\ run[r1].rec.names.s = <<ali, Ali>>
    /\ Names(run[r1].rec, 2)
    /\ run[r1].trace = <<"claim", "post", "find", "save", "set", "send">>
    /\ run[r1].fin.name = Ali
    /\ run[r2].pc = "idle"
    /\ visitors[1].visitCount = 1
    /\ visitors[1].lastVisit = r1

(***************************************************************************)
(* C24. When the oracle answers success and authenticated with an empty or *)
(* missing candidate list, the result has name "unknown" and               *)
(* authorized=false and the run makes no store query or update.            *)
(***************************************************************************)
NoCandidates(rr) ==
  /\ rr.body = "object"
  /\ rr.success = "true"
  /\ rr.authenticated = "true"
  /\ Len(RecognizedNames(rr)) = 0

C24_NoCandidates ==
  \A r \in Runs :
    NoCandidates(run[r].rec) =>
      /\ run[r].pc \notin {"post", "findOne", "save"}
      /\ \A w \in StoreLogs : ~Has(r, w)
      /\ run[r].doc = NoDoc
      /\ run[r].fin.kind = "result"
      /\ run[r].fin.name = Unknown
      /\ run[r].fin.authorized = FALSE

C24_Witness ==
  \E r1, r2 \in Runs :
    /\ run[r1].rec = NamelessBody
    /\ run[r1].pc = "done"
    /\ results[run[r1].ev].name = Unknown
    /\ results[run[r1].ev].authorized = FALSE
    /\ NoCandidates(run[r2].rec) /\ run[r2].rec.names.t = "array"
    /\ run[r2].pc = "done"
    /\ results[run[r2].ev].name = Unknown

(***************************************************************************)
(* C25. The event record is read-only to the pipeline except for the       *)
(* processed flag: no step changes any other field of any event, and no    *)
(* event is ever removed.                                                  *)
(***************************************************************************)
C25_EventReadOnly ==
  /\ [](DOMAIN eventData = Events /\ DOMAIN processed = Events)
  /\ [][\A e \in Events : eventData'[e] = eventData[e]]_vars

C25_Witness ==
  \E r \in Runs :
    /\ Has(r, "claim") /\ Has(r, "reset")
    /\ processed[run[r].ev] = FALSE
    /\ eventData = Payloads

(***************************************************************************)
(* C26. When runs for two distinct events have both saved a visit of the   *)
(* same visitor, the visitor's visitCount is two higher than it was.       *)
(***************************************************************************)
C26_ConcurrentIncrementsAdd ==
  \A r1, r2 \in Runs :
    /\ r1 # r2
    /\ Has(r1, "save") /\ Has(r2, "save")
    /\ run[r1].ev # run[r2].ev
    /\ run[r1].doc.id = run[r2].doc.id
    => visitors[run[r1].doc.id].visitCount
         = InitVisitors[run[r1].doc.id].visitCount + 2

(***************************************************************************)
(* C27. With no crash and no delivery of an event while another run of it  *)
(* is in flight: a visitCount never decreases; over all runs of one event  *)
(* at most one save of a visit succeeds per visitor; and a visit of        *)
(* visitor v is saved for event e exactly when a result with               *)
(* authorized=true naming v is stored for e.                               *)
(***************************************************************************)
NoCrashNoOverlap ==
  /\ alive
  /\ \A r \in Runs : run[r].pc # "crashed" /\ ~run[r].dup

\* Runs of event e that have saved a visit of visitor v.
Savers(e, v) ==
  {r \in Runs : run[r].ev = e /\ Has(r, "save") /\ run[r].doc.id = v}

C27_OneIncrementPerEvent ==
  /\ [](NoCrashNoOverlap =>
          \A e \in Events, v \in VisitorIds :
            /\ Cardinality(Savers(e, v)) <= 1
            /\ (\A r \in Runs : run[r].ev = e => run[r].pc \notin FlightPcs) =>
                 (Savers(e, v) # {} <=>
                    /\ results[e].kind = "result"
                    /\ results[e].authorized = TRUE
                    /\ results[e].name = visitors[v].name))
  /\ [][NoCrashNoOverlap =>
          \A v \in VisitorIds : visitors'[v].visitCount >= visitors[v].visitCount]_vars

(***************************************************************************)
(* C28. Recovery after a crash: when an event whose run was lost to a      *)
(* crash after its claim write and before its sink write is delivered      *)
(* again, with no result stored and no run of it in flight, the delivery   *)
(* is taken up (the event is claimed and processed), not skipped.          *)
(***************************************************************************)
\* A run of event e was lost between its claim write and its sink write.
LostInFlight(e) ==
  \E r \in Runs :
    /\ run[r].ev = e
    /\ run[r].pc = "crashed"
    /\ Has(r, "claim")
    /\ ~Has(r, "set") /\ ~Has(r, "setFail")

C28_RedeliveryAfterCrashIsProcessed ==
  [][\A e \in Events :
       /\ nruns' = nruns + 1
       /\ run'[nruns'].ev = e
       /\ LostInFlight(e)
       /\ results[e].kind = "none"
       /\ \A r \in Runs : run[r].ev = e => run[r].pc \notin FlightPcs
       => run'[nruns'].pc = "claim"]_vars

(***************************************************************************)
(* C29. Every written result: authorized=true implies recognized=true and  *)
(* a name that is the stored name of an authorized visitor some candidate  *)
(* matched; recognized=false implies authorized=false and name "unknown"   *)
(* or "unclassified".  A visitor with isAuthorized=false never has its     *)
(* record changed.                                                         *)
(***************************************************************************)
\* Some candidate of rr matches the authorized visitor v.
MatchedBy(rr, v) ==
  /\ visitors[v].isAuthorized
  /\ \E i \in 1..Len(RecognizedNames(rr)) :
       /\ ~RegExpThrows(RecognizedNames(rr)[i])
       /\ RegExpTest(RecognizedNames(rr)[i], visitors[v].name)

C29_ResultIsSound ==
  /\ [](\A r \in Runs :
          Has(r, "set") =>
            /\ run[r].fin.authorized = TRUE =>
                 /\ run[r].fin.recognized = "true"
                 /\ \E v \in VisitorIds :
                      /\ MatchedBy(run[r].rec, v)
                      /\ run[r].fin.name = visitors[v].name
            /\ run[r].fin.recognized = "false" =>
                 /\ run[r].fin.authorized = FALSE
                 /\ run[r].fin.name \in {Unknown, Unclassified})
  /\ [][/\ \A r \in Runs :
             run[r].pc = "set" /\ run'[r].pc = "send" =>
               results'[run[r].ev] = run[r].fin
        /\ \A v \in VisitorIds :
             ~visitors[v].isAuthorized => visitors'[v] = visitors[v]]_vars

C29_Witness ==
  \E r1, r2 \in Runs :
    /\ Has(r1, "set") /\ results[run[r1].ev] = run[r1].fin
    /\ run[r1].fin.authorized = TRUE
    /\ run[r1].rec.names.s = <<Zed, Ali>>
    /\ run[r1].fin.name = Ali
    /\ Has(r2, "set") /\ results[run[r2].ev] = run[r2].fin
    /\ run[r2].rec.names.s = <<Bob>>
    /\ Has(r2, "find")
    /\ run[r2].fin.authorized = FALSE
    /\ visitors[2] = InitVisitors[2]

(***************************************************************************)
(* C30. At most one listener is registered, and a service marked           *)
(* initialized has its listener registered.                                *)
(***************************************************************************)
C30_InitializedHasListener ==
  /\ listeners <= 1
  /\ isInitialized => listeners = 1

====
